---- MODULE Spec2Model ----
(***************************************************************************)
(* Model of allure-python-commons/src/utils.py: the canonical representer  *)
(* `represent` and the parameter snapshot `func_parameters`.               *)
(*                                                                         *)
(* Python values are records [kind, data, items]:                          *)
(*   kind  - the runtime type of the value,                                *)
(*   data  - code points of a text, bytes of a byte string, <<n>> of an    *)
(*           int,                                                          *)
(*   items - the elements of a tuple.                                      *)
(* Rendered strings are TLA+ strings.  A character outside the ASCII table *)
(* of Chr is written "U+<code point>".                                     *)
(***************************************************************************)
EXTENDS Integers, Sequences, FiniteSets, TLC

VARIABLES major, pc, call, snapshot, item, rendering

vars == <<major, pc, call, snapshot, item, rendering>>

(* ------------------------------ bounds --------------------------------- *)
MaxParams == 2
MaxArgs == 3
MaxKw == 1
MaxLen == 2

(* ------------------------------ values --------------------------------- *)
Text(cs) == [kind |-> "text", data |-> cs, items |-> <<>>]

Bytes(bs) == [kind |-> "bytes", data |-> bs, items |-> <<>>]

ByteArray(bs) == [kind |-> "bytearray", data |-> bs, items |-> <<>>]

IntValue(n) == [kind |-> "int", data |-> <<n>>, items |-> <<>>]

NoneValue == [kind |-> "None", data |-> <<>>, items |-> <<>>]

TrueValue == [kind |-> "bool", data |-> <<1>>, items |-> <<>>]

IntType == [kind |-> "type", data |-> <<>>, items |-> <<>>]

\* l = []; l.append(l)
CyclicList == [kind |-> "cyclic_list", data |-> <<>>, items |-> <<>>]

\* an instance of a class whose __repr__ raises
Unprintable == [kind |-> "unprintable", data |-> <<>>, items |-> <<>>]

Tuple(vs) == [kind |-> "tuple", data |-> <<>>, items |-> vs]

SeqsUpTo(S, n) == UNION {[1..k -> S] : k \in 0..n}

\* code points: '1', 'h', the single quote, the backslash, U+043F
TextAlphabet == {49, 104, 39, 92, 1087}

\* '1', 'h', a lone continuation byte, the two bytes of U+043F in UTF-8
ByteAlphabet == {49, 104, 137, 208, 191}

(* --------------------------- string helpers ---------------------------- *)
Chr(cp) ==
    CASE cp = 10 -> "\n"
      [] cp = 34 -> "\""
      [] cp = 39 -> "'"
      [] cp = 49 -> "1"
      [] cp = 92 -> "\\"
      [] cp = 104 -> "h"
      [] OTHER -> "U+" \o ToString(cp)

RECURSIVE Cat(_)
Cat(cs) == IF cs = <<>> THEN "" ELSE Chr(Head(cs)) \o Cat(Tail(cs))

Ok(s) == [raised |-> FALSE, text |-> s]

Raised == [raised |-> TRUE, text |-> ""]

(* ------------------- str.decode(encoding='UTF-8') ---------------------- *)
IsCont(b) == b >= 128 /\ b <= 191

\* length of the UTF-8 sequence a lead byte announces, 0 for an invalid lead
Utf8Width(b) ==
    IF b < 128 THEN 1
    ELSE IF b >= 194 /\ b <= 223 THEN 2
    ELSE IF b >= 224 /\ b <= 239 THEN 3
    ELSE IF b >= 240 /\ b <= 244 THEN 4
    ELSE 0

Utf8Point(bs, w) ==
    CASE w = 1 -> bs[1]
      [] w = 2 -> (bs[1] - 192) * 64 + (bs[2] - 128)
      [] w = 3 -> (bs[1] - 224) * 4096 + (bs[2] - 128) * 64 + (bs[3] - 128)
      [] w = 4 -> (bs[1] - 240) * 262144 + (bs[2] - 128) * 4096
                    + (bs[3] - 128) * 64 + (bs[4] - 128)

Utf8WellFormed(bs, w) ==
    /\ w > 0
    /\ Len(bs) >= w
    /\ \A i \in 2..w : IsCont(bs[i])
    /\ w = 3 => /\ Utf8Point(bs, 3) >= 2048
                /\ ~(Utf8Point(bs, 3) >= 55296 /\ Utf8Point(bs, 3) <= 57343)
    /\ w = 4 => /\ Utf8Point(bs, 4) >= 65536
                /\ Utf8Point(bs, 4) <= 1114111

RECURSIVE Utf8Valid(_)
Utf8Valid(bs) ==
    IF bs = <<>> THEN TRUE
    ELSE LET w == Utf8Width(Head(bs))
         IN  /\ Utf8WellFormed(bs, w)
             /\ Utf8Valid(SubSeq(bs, w + 1, Len(bs)))

RECURSIVE Utf8Decode(_)
Utf8Decode(bs) ==
    IF bs = <<>> THEN <<>>
    ELSE LET w == Utf8Width(Head(bs))
         IN  <<Utf8Point(bs, w)>> \o Utf8Decode(SubSeq(bs, w + 1, Len(bs)))

(* ------------------------------- repr ---------------------------------- *)
\* repr(type(item))
TypeRepr(m, name) ==
    (IF m < 3 THEN "<type '" ELSE "<class '") \o name \o "'>"

TypeName(m, v) ==
    CASE v.kind = "bytes" -> IF m < 3 THEN "str" ELSE "bytes"
      [] v.kind = "bytearray" -> "bytearray"
      [] v.kind = "type" -> "int"

HexDigit(d) ==
    CASE d = 0 -> "0" [] d = 1 -> "1" [] d = 2 -> "2" [] d = 3 -> "3"
      [] d = 4 -> "4" [] d = 5 -> "5" [] d = 6 -> "6" [] d = 7 -> "7"
      [] d = 8 -> "8" [] d = 9 -> "9" [] d = 10 -> "a" [] d = 11 -> "b"
      [] d = 12 -> "c" [] d = 13 -> "d" [] d = 14 -> "e" [] d = 15 -> "f"

Hex2(n) == HexDigit(n \div 16) \o HexDigit(n % 16)

Hex4(n) == Hex2(n \div 256) \o Hex2(n % 256)

\* one character of the repr of a string whose delimiter is the code point q;
\* ascii: non-ASCII characters are escaped (Python 2 unicode, all byte strings)
EscapeChar(c, q, ascii, wide) ==
    IF c = 92 THEN "\\\\"
    ELSE IF c = q THEN "\\" \o Chr(c)
    ELSE IF c = 10 THEN "\\n"
    ELSE IF c >= 128 /\ ascii
         THEN IF wide THEN "\\u" \o Hex4(c) ELSE "\\x" \o Hex2(c)
    ELSE Chr(c)

RECURSIVE Escape(_, _, _, _)
Escape(cs, q, ascii, wide) ==
    IF cs = <<>> THEN ""
    ELSE EscapeChar(Head(cs), q, ascii, wide) \o Escape(Tail(cs), q, ascii, wide)

Contains(cs, c) == \E i \in 1..Len(cs) : cs[i] = c

\* the delimiter repr picks: double quotes when the string holds a single
\* quote and no double quote
QuoteOf(cs) == IF Contains(cs, 39) /\ ~Contains(cs, 34) THEN 34 ELSE 39

StrRepr(cs, prefix, ascii, wide) ==
    prefix \o Chr(QuoteOf(cs)) \o Escape(cs, QuoteOf(cs), ascii, wide)
           \o Chr(QuoteOf(cs))

RECURSIVE Repr(_, _)
RECURSIVE ReprItems(_, _)
\* repr(v) on Python m: [raised, text]
Repr(m, v) ==
    CASE v.kind = "text" ->
             Ok(StrRepr(v.data, IF m < 3 THEN "u" ELSE "", m < 3, TRUE))
      [] v.kind = "bytes" ->
             Ok(StrRepr(v.data, IF m < 3 THEN "" ELSE "b", TRUE, FALSE))
      [] v.kind = "bytearray" ->
             Ok("bytearray(" \o StrRepr(v.data, "b", TRUE, FALSE) \o ")")
      [] v.kind = "int" -> Ok(ToString(v.data[1]))
      [] v.kind = "None" -> Ok("None")
      [] v.kind = "bool" -> Ok(IF v.data[1] = 1 THEN "True" ELSE "False")
      [] v.kind = "type" -> Ok(TypeRepr(m, TypeName(m, v)))
      [] v.kind = "cyclic_list" -> Ok("[[...]]")
      [] v.kind = "unprintable" -> Raised
      [] v.kind = "tuple" ->
             LET inner == ReprItems(m, v.items)
             IN  IF inner.raised THEN Raised
                 ELSE Ok("(" \o inner.text
                             \o (IF Len(v.items) = 1 THEN "," ELSE "") \o ")")

ReprItems(m, vs) ==
    IF vs = <<>> THEN Ok("")
    ELSE LET h == Repr(m, Head(vs))
             t == ReprItems(m, Tail(vs))
         IN  IF h.raised \/ t.raised THEN Raised
             ELSE Ok(h.text \o (IF Len(vs) > 1 THEN ", " ELSE "") \o t.text)

(* ----------------------------- represent ------------------------------- *)
\* lines 95-99: on Python 2 a str that is valid UTF-8 becomes unicode
decode(m, v) ==
    IF m < 3 /\ v.kind = "bytes" /\ Utf8Valid(v.data)
    THEN Text(Utf8Decode(v.data))
    ELSE v

\* represent with every text rendered by repr: quotes and backslashes escaped
represent_escaped(m, v) ==
    LET it == decode(m, v)
    IN  IF it.kind \in {"bytes", "bytearray"}
        THEN Ok(TypeRepr(m, TypeName(m, it)))
        ELSE Repr(m, it)

represent(m, v) ==
    LET it == decode(m, v)
    IN  IF it.kind = "text" THEN Ok("'" \o Cat(it.data) \o "'")
        ELSE IF it.kind \in {"bytes", "bytearray"}
             THEN Ok(TypeRepr(m, TypeName(m, it)))
        ELSE Repr(m, it)

(* --------------------------- dict helpers ------------------------------ *)
NoName == ""

EmptyDict == [k \in {} |-> NoneValue]

Min(x, y) == IF x < y THEN x ELSE y

\* seq[k:]
SliceFrom(seq, k) == IF k >= Len(seq) THEN <<>> ELSE SubSeq(seq, k + 1, Len(seq))

\* dict(zip(names, values)): pairs up to the shorter length, last pair wins
ZipDict(names, values) ==
    LET n == Min(Len(names), Len(values))
    IN  [k \in {names[i] : i \in 1..n} |->
            values[CHOOSE i \in 1..n :
                      /\ names[i] = k
                      /\ \A j \in (i + 1)..n : names[j] # k]]

\* d.update(e)
Update(d, e) ==
    [k \in DOMAIN d \cup DOMAIN e |-> IF k \in DOMAIN e THEN e[k] ELSE d[k]]

\* d.pop(name, None)
Pop(d, name) == [k \in DOMAIN d \ {name} |-> d[k]]

(* -------------------------- func_parameters ---------------------------- *)
\* line 244
args_dict(arg_spec, args) == ZipDict(arg_spec.args, args)

\* lines 246-248
kwargs_defaults_dict(arg_spec, args) ==
    IF arg_spec.defaults # <<>>
    THEN ZipDict(SliceFrom(arg_spec.args, Len(args)), arg_spec.defaults)
    ELSE EmptyDict

\* varargs_dict without the emptiness test: an empty surplus is reported too
varargs_dict_always(arg_spec, args) ==
    IF arg_spec.varargs # NoName
    THEN [k \in {arg_spec.varargs} |-> Tuple(SliceFrom(args, Len(arg_spec.args)))]
    ELSE EmptyDict

\* lines 250-252
varargs_dict(arg_spec, args) ==
    LET varargs == SliceFrom(args, Len(arg_spec.args))
    IN  IF arg_spec.varargs # NoName /\ varargs # <<>>
        THEN [k \in {arg_spec.varargs} |-> Tuple(varargs)]
        ELSE EmptyDict

\* pop_receiver that knows only the name self
pop_receiver_self_only(arg_spec, d) ==
    IF arg_spec.args # <<>> /\ arg_spec.args[1] = "self"
    THEN Pop(d, arg_spec.args[1])
    ELSE d

\* lines 254-255
pop_receiver(arg_spec, d) ==
    IF arg_spec.args # <<>> /\ arg_spec.args[1] \in {"cls", "self"}
    THEN Pop(d, arg_spec.args[1])
    ELSE d

\* parameters with the keywords merged first: defaults and the surplus
\* overwrite them
parameters_kwargs_first(arg_spec, args, kwargs) ==
    LET p1 == Update(kwargs, kwargs_defaults_dict(arg_spec, args))
        p2 == Update(p1, varargs_dict(arg_spec, args))
    IN  Update(p2, pop_receiver(arg_spec, args_dict(arg_spec, args)))

\* lines 242-258: the mapping before rendering
parameters(arg_spec, args, kwargs) ==
    LET p1 == Update(EmptyDict, kwargs_defaults_dict(arg_spec, args))
        p2 == Update(p1, varargs_dict(arg_spec, args))
        p3 == Update(p2, kwargs)
    IN  Update(p3, pop_receiver(arg_spec, args_dict(arg_spec, args)))

\* lines 260-261: raises when rendering one of the values raises
func_parameters(m, arg_spec, args, kwargs) ==
    LET p == parameters(arg_spec, args, kwargs)
    IN  IF \E k \in DOMAIN p : represent(m, p[k]).raised
        THEN [raised |-> TRUE, dict |-> EmptyDict]
        ELSE [raised |-> FALSE,
              dict |-> [k \in DOMAIN p |-> represent(m, p[k]).text]]

(* ------------------------------ inputs --------------------------------- *)
Receivers == {<<>>, <<"self">>, <<"cls">>}

OrdinaryNames == <<"a", "b", "c", "d", "e", "f">>

Ordinary == {SubSeq(OrdinaryNames, 1, n) : n \in 0..MaxParams}

\* declared positional names: distinct, a receiver name first or last
ArgNames ==
    {r \o p : r \in Receivers, p \in Ordinary}
        \cup {p \o r : r \in Receivers, p \in Ordinary}

\* the default of the j-th defaulted parameter: distinct values, ints and texts
DefaultAt(j) == IF j % 2 = 1 THEN IntValue(10 + j) ELSE Text([i \in 1..j |-> 104])

DefaultLists == {[j \in 1..k |-> DefaultAt(j)] : k \in 0..(MaxParams + 1)}

\* what inspect.getfullargspec can return: at most one default per name
Signatures ==
    {s \in [args : ArgNames, defaults : DefaultLists,
            varargs : {NoName, "rest"}, varkw : {NoName, "kw"}] :
        Len(s.defaults) <= Len(s.args)}

\* positional values: the i-th is the int i or an unprintable instance
PositionalLists ==
    UNION {{a \in [1..k -> {IntValue(i) : i \in 1..k} \cup {Unprintable}] :
               \A i \in 1..k : a[i] \in {IntValue(i), Unprintable}} : k \in 0..MaxArgs}

KeywordValues == {Text(<<49>>), Unprintable}

KwNames == {"self", "cls", "a", "b", "rest", "kw", "x"}

KwDicts ==
    UNION {[ks -> KeywordValues] : ks \in {s \in SUBSET KwNames : Cardinality(s) <= MaxKw}}

Texts == {Text(cs) : cs \in SeqsUpTo(TextAlphabet, MaxLen)}

ByteStrings == {Bytes(bs) : bs \in SeqsUpTo(ByteAlphabet, MaxLen)}

ByteArrays == {ByteArray(bs) : bs \in SeqsUpTo(ByteAlphabet, MaxLen)}

Scalars ==
    {NoneValue, TrueValue, IntType, CyclicList, Unprintable}
        \cup {IntValue(n) : n \in {-1, 0, 1, 11, 123}}

Items ==
    Texts \cup ByteStrings \cup ByteArrays \cup Scalars
        \cup {Tuple(<<x>>) : x \in Scalars \cup {Text(<<39>>), Text(<<104>>)}}

(* --------------------------- state machine ----------------------------- *)
NoCall == [arg_spec |-> [args |-> <<>>, defaults |-> <<>>,
                         varargs |-> NoName, varkw |-> NoName],
           args |-> <<>>, kwargs |-> EmptyDict]

NoSnapshot == [raised |-> FALSE, dict |-> EmptyDict]

Init ==
    /\ major \in {2, 3}
    /\ pc = "start"
    /\ call = NoCall
    /\ snapshot = NoSnapshot
    /\ item = NoneValue
    /\ rendering = Ok("")

\* one invocation of func_parameters(func, *args, **kwargs)
FuncParameters ==
    /\ pc = "start"
    /\ \E arg_spec \in Signatures, args \in PositionalLists,
          kwargs \in KwDicts :
          /\ call' = [arg_spec |-> arg_spec, args |-> args, kwargs |-> kwargs]
          /\ snapshot' = func_parameters(major, arg_spec, args, kwargs)
    /\ pc' = "snapshot"
    /\ UNCHANGED <<major, item, rendering>>

\* one invocation of represent(item)
Represent ==
    /\ pc = "start"
    /\ \E v \in Items :
          /\ item' = v
          /\ rendering' = represent(major, v)
    /\ pc' = "represent"
    /\ UNCHANGED <<major, call, snapshot>>

Next == FuncParameters \/ Represent

Spec == Init /\ [][Next]_vars

(* ------------------------- notions of the claims ----------------------- *)
Returned == pc = "snapshot" /\ ~snapshot.raised

sig == call.arg_spec

Declared == {sig.args[i] : i \in 1..Len(sig.args)}

HasReceiver == sig.args # <<>> /\ sig.args[1] \in {"self", "cls"}

IsReceiver(i) == i = 1 /\ HasReceiver

\* the first index of a parameter with a default, minus one
Required == Len(sig.args) - Len(sig.defaults)

DeclaredDefault(i) == sig.defaults[i - Required]

Positionally(i) == i <= Len(call.args)

ByKeyword(i) == sig.args[i] \in DOMAIN call.kwargs

Shown(v) == represent(major, v).text

Reports(name, v) ==
    name \in DOMAIN snapshot.dict /\ snapshot.dict[name] = Shown(v)

\* the positional values after the first Len(sig.args) ones, in order
Surplus ==
    [i \in 1..(Len(call.args) - Len(sig.args)) |-> call.args[Len(sig.args) + i]]

(* -------------------------------- C1 ----------------------------------- *)
\* C1: every defaulted parameter that is supplied neither positionally nor by
\* keyword is reported with the rendering of its own declared default, and a
\* supplied one with the rendering of the supplied value, for every number of
\* positional values.
C1_DefaultsBound ==
    Returned =>
        \A i \in (Required + 1)..Len(sig.args) :
            ~IsReceiver(i) =>
                /\ (~Positionally(i) /\ ~ByKeyword(i))
                       => Reports(sig.args[i], DeclaredDefault(i))
                /\ (Positionally(i) /\ ~ByKeyword(i))
                       => Reports(sig.args[i], call.args[i])
                /\ (~Positionally(i) /\ ByKeyword(i))
                       => Reports(sig.args[i], call.kwargs[sig.args[i]])

(* -------------------------------- C2 ----------------------------------- *)
\* C2: every name passed by keyword is reported with the rendering of the
\* keyword's value, also when the name is a declared positional parameter
\* paired with a positional value in the same call.
C2_KeywordWins ==
    Returned => \A n \in DOMAIN call.kwargs : Reports(n, call.kwargs[n])

(* -------------------------------- C3 ----------------------------------- *)
\* C3: when the first declared positional parameter is named self or cls,
\* that name is never a key of the returned mapping.
C3_ReceiverNeverReported ==
    (Returned /\ HasReceiver) => sig.args[1] \notin DOMAIN snapshot.dict

(* -------------------------------- C4 ----------------------------------- *)
\* C4: a required positional parameter supplied neither positionally nor by
\* keyword is absent from the returned mapping.
C4_MissingRequiredAbsent ==
    Returned =>
        \A i \in 1..Required :
            (~Positionally(i) /\ ~ByKeyword(i))
                => sig.args[i] \notin DOMAIN snapshot.dict

(* -------------------------------- C5 ----------------------------------- *)
\* C5 as stated: with a *varargs name, surplus positional values are reported
\* under that name as the rendering of the tuple of the surplus; without
\* surplus the name is a key only if the caller passed it as a keyword.
C5_SurplusAlwaysTuple ==
    (Returned /\ sig.varargs # NoName) =>
        IF Surplus # <<>>
        THEN Reports(sig.varargs, Tuple(Surplus))
        ELSE sig.varargs \in DOMAIN snapshot.dict
                 <=> sig.varargs \in DOMAIN call.kwargs

\* C5 amended: with a *varargs name, a keyword of that very name is reported
\* with the keyword's value; otherwise surplus positional values are reported
\* under the name as the rendering of the tuple of the surplus, in order, and
\* without surplus the name is not a key.
C5_SurplusTupleUnlessKeyword ==
    (Returned /\ sig.varargs # NoName) =>
        IF sig.varargs \in DOMAIN call.kwargs
        THEN Reports(sig.varargs, call.kwargs[sig.varargs])
        ELSE IF Surplus # <<>>
             THEN Reports(sig.varargs, Tuple(Surplus))
             ELSE sig.varargs \notin DOMAIN snapshot.dict

C5_Witness ==
    /\ Returned
    /\ sig.varargs = "rest"
    /\ sig.args = <<"a">>
    /\ call.args = <<IntValue(1), IntValue(2), IntValue(3)>>
    /\ "rest" \notin DOMAIN call.kwargs
    /\ snapshot.dict["rest"] = "(2, 3)"

(* -------------------------------- C6 ----------------------------------- *)
OnlyRequired ==
    /\ sig.defaults = <<>>
    /\ sig.varargs = NoName
    /\ sig.varkw = NoName

ExactCall ==
    /\ pc = "snapshot"
    /\ OnlyRequired
    /\ Len(call.args) = Len(sig.args)
    /\ DOMAIN call.kwargs = {}

Reported == {i \in 1..Len(sig.args) : ~IsReceiver(i)}

\* C6: a signature with only required positional parameters, called with
\* exactly that many positional values and no keywords, yields a mapping whose
\* keys are the declared names minus a leading self/cls and which maps the
\* i-th name to the rendering of the i-th value; the call raises only when
\* one of the reported values cannot be rendered.
C6_ExactPositional ==
    ExactCall =>
        IF snapshot.raised
        THEN \E i \in Reported : represent(major, call.args[i]).raised
        ELSE /\ DOMAIN snapshot.dict = {sig.args[i] : i \in Reported}
             /\ \A i \in Reported : snapshot.dict[sig.args[i]] = Shown(call.args[i])

C6_Witness ==
    /\ ExactCall
    /\ ~snapshot.raised
    /\ sig.args = <<"cls", "a", "b">>
    /\ call.args = <<Unprintable, IntValue(2), IntValue(3)>>
    /\ snapshot.dict = [k \in {"a", "b"} |-> IF k = "a" THEN "2" ELSE "3"]

(* -------------------------------- C7 ----------------------------------- *)
Rendered == pc = "represent"

\* the descriptor of the type of a binary value
Descriptor ==
    IF item.kind = "bytearray"
    THEN IF major < 3 THEN "<type 'bytearray'>" ELSE "<class 'bytearray'>"
    ELSE IF major < 3 THEN "<type 'str'>" ELSE "<class 'bytes'>"

Quoted(cs) == Ok("'" \o Cat(cs) \o "'")

Digits == {49}

\* C7 as stated: a text yields the text in single quotes, unescaped; a bytes
\* or bytearray value yields only the descriptor of its type; every other
\* value yields its repr; a text of digits does not render as the digits.
C7_DecisionTable ==
    Rendered =>
        /\ item.kind = "text" => rendering = Quoted(item.data)
        /\ item.kind \in {"bytes", "bytearray"} => rendering = Ok(Descriptor)
        /\ item.kind \notin {"text", "bytes", "bytearray"}
               => rendering = Repr(major, item)
        /\ (item.kind = "text" /\ \A i \in 1..Len(item.data) : item.data[i] \in Digits)
               => rendering.text # Cat(item.data)

\* C7 amended: as stated, except that on Python 2 a byte string (str) that is
\* valid UTF-8 is a text: it yields its decoded characters in single quotes.
C7_DecisionTablePy2Text ==
    Rendered =>
        /\ item.kind = "text" => rendering = Quoted(item.data)
        /\ (item.kind = "bytes" /\ major < 3 /\ Utf8Valid(item.data))
               => rendering = Quoted(Utf8Decode(item.data))
        /\ (item.kind = "bytes" /\ ~(major < 3 /\ Utf8Valid(item.data)))
               => rendering = Ok(Descriptor)
        /\ item.kind = "bytearray" => rendering = Ok(Descriptor)
        /\ item.kind \notin {"text", "bytes", "bytearray"}
               => rendering = Repr(major, item)
        /\ (item.kind = "text" /\ \A i \in 1..Len(item.data) : item.data[i] \in Digits)
               => rendering.text # Cat(item.data)

C7_Witness ==
    /\ Rendered
    /\ major = 2
    /\ item = Bytes(<<208, 191>>)
    /\ rendering = Ok("'U+1087'")

(* -------------------------------- C8 ----------------------------------- *)
\* C8: represent returns a string and never raises, for every value.
C8_RepresentTotal == Rendered => ~rendering.raised

(* -------------------------------- C9 ----------------------------------- *)
\* C9: once the signature is obtained, func_parameters returns a mapping
\* without raising, for every combination of signature and call.
C9_SnapshotTotal == pc = "snapshot" => ~snapshot.raised

(* -------------------------------- C10 ---------------------------------- *)
\* C10: every keyword name that is not a declared positional parameter is a
\* top-level key mapped to the rendering of its value; the **kwargs collector
\* name is a key only if the caller passed a keyword of that very name.
C10_ExtraKeywordsFlat ==
    Returned =>
        /\ \A n \in DOMAIN call.kwargs \ Declared : Reports(n, call.kwargs[n])
        /\ sig.varkw # NoName =>
               (sig.varkw \in DOMAIN snapshot.dict
                    <=> sig.varkw \in DOMAIN call.kwargs)

C10_Witness ==
    /\ Returned
    /\ sig.varkw = "kw"
    /\ sig.varargs = "rest"
    /\ Surplus # <<>>
    /\ DOMAIN call.kwargs = {"rest"}
    /\ snapshot.dict["rest"] = "'1'"
    /\ "kw" \notin DOMAIN snapshot.dict

====
